---- MODULE Spec2Model ----
(***************************************************************************)
(* rsdu: the recursive size aggregation of librsdu (src-lib/src/lib.rs)    *)
(* and the navigation loop of the terminal browser (src-cli/src/main.rs).  *)
(*                                                                         *)
(* The filesystem is an oracle: a tree whose nodes say what fs::metadata   *)
(* and fs::read_dir answer for the path at that position.                  *)
(*   kind "nostat"  : fs::metadata(path) fails                             *)
(*   kind "file"    : metadata succeeds, is_dir() = false, len() = len     *)
(*   kind "dirfail" : metadata succeeds, is_dir() = true, read_dir fails   *)
(*   kind "dir"     : read_dir succeeds and yields `entries` in order      *)
(*   kind "err"     : (only as an entry) the iterator yields Err here      *)
(* A path is the sequence of listing positions leading from the root.      *)
(***************************************************************************)
EXTENDS Integers, Sequences, FiniteSets, TLC

\* Bounds of the explored filesystems.
MaxNodes == 4
MaxLen == 2
\* Bound of the terminal heights getmaxyx reports.
MaxHeight == 5
\* Bound of the filesystems browsed on terminals of every height.
MaxScreenNodes == 3
\* Bound of the whole TiB in a size given to human_readable_size.
MaxTiB == 2

VARIABLES
  fs,              \* the filesystem oracle
  resolvable,      \* whether fs::canonicalize succeeds on the argument
  pc,              \* where main is
  stack,           \* app_state.stack
  selected_index,  \* app_state.selected_index (zero-based)
  total_size,      \* main's total_size
  total_items,     \* main's total_items
  ch,              \* the key getch returned last ("none" before the first)
  before,          \* history: the navigation state when that key was read
  term,            \* the terminal: "off", "on" after initscr, "ended" after endwin
  exit_code,       \* the process exit status, -1 while it runs
  frame,           \* the frame refresh() showed last
  fmt_in,          \* the argument of a human_readable_size call on its own
  fmt_out          \* and its result

vars == <<fs, resolvable, pc, stack, selected_index, total_size, total_items, ch, before,
          term, exit_code, frame, fmt_in, fmt_out>>

----------------------------------------------------------------------------
\* The filesystem oracle.

FsNode(k, n, es) == [kind |-> k, len |-> n, entries |-> es]

ErrEntry == FsNode("err", 0, <<>>)

RECURSIVE Trees(_), Forests(_)

\* Filesystem trees of exactly n nodes.
Trees(n) ==
  IF n = 0 THEN {}
  ELSE IF n = 1
    THEN {FsNode("nostat", 0, <<>>), FsNode("dirfail", 0, <<>>), FsNode("dir", 0, <<>>)}
         \cup {FsNode("file", s, <<>>) : s \in 0..MaxLen}
    ELSE {FsNode("dir", 0, f) : f \in Forests(n - 1)}

\* Directory listings (what the read_dir iterator yields) of n nodes in all.
Forests(n) ==
  IF n = 0 THEN {<<>>}
  ELSE UNION {
         {<<e>> \o f : e \in (Trees(k) \cup (IF k = 1 THEN {ErrEntry} ELSE {})),
                       f \in Forests(n - k)} : k \in 1..n}

FileSystems == UNION {Trees(n) : n \in 1..MaxNodes}

----------------------------------------------------------------------------
\* librsdu: FileInfo and traverse_directory.

None == <<>>
Some(v) == <<v>>

FileInfo_new(path, size, is_dir, items) ==
  [path |-> path, size |-> size, is_dir |-> is_dir, children |-> None, items |-> items]

Ok(info) == [ok |-> TRUE, info |-> info]
Err == [ok |-> FALSE, info |-> None]

\* let metadata = fs::metadata(path)?;
metadata_ok(node) == node.kind \in {"file", "dir", "dirfail"}
metadata_is_dir(node) == node.kind \in {"dir", "dirfail"}
\* let read_dir = fs::read_dir(path)?;
read_dir_ok(node) == node.kind = "dir"
\* let entry = entry_result?;
entry_ok(entry) == entry.kind # "err"

\* size = 0; items = 1; children = Vec::new()
loop_start == [size |-> 0, items |-> 1, children |-> <<>>]

\* The Ok arm of the match on the child's traversal.
add_child_bad_items(acc, child_info) ==
  [size |-> acc.size + child_info.size,
   items |-> acc.items + 1,
   children |-> Append(acc.children, child_info)]
add_child(acc, child_info) ==
  [size |-> acc.size + child_info.size,
   items |-> acc.items + child_info.items,
   children |-> Append(acc.children, child_info)]

\* The Err arm: a warning on stderr, then continue.
skip_child_placeholder(acc, child_path) ==
  [acc EXCEPT !.children = Append(@, FileInfo_new(child_path, 0, FALSE, 1))]
skip_child(acc, child_path) == acc

\* The else branch: size = metadata.len().
leaf_size_zero(node) == 0
leaf_size(node) == node.len

\* file_info.children = Some(children) for a directory only.
with_children(file_info, is_dir, children) ==
  IF is_dir THEN [file_info EXCEPT !.children = Some(children)] ELSE file_info

RECURSIVE traverse_directory(_, _), for_entries(_, _, _, _)

\* for entry_result in read_dir { ... }, from the i-th entry on.
for_entries(entries, path, i, acc) ==
  IF i > Len(entries) THEN [ok |-> TRUE, acc |-> acc]
  ELSE IF ~entry_ok(entries[i]) THEN [ok |-> FALSE, acc |-> acc]
  ELSE LET child_path == Append(path, i)
           child == traverse_directory(entries[i], child_path)
       IN  IF child.ok
             THEN for_entries(entries, path, i + 1, add_child(acc, child.info))
             ELSE for_entries(entries, path, i + 1, skip_child(acc, child_path))

traverse_directory(node, path) ==
  IF ~metadata_ok(node) THEN Err
  ELSE LET is_dir == metadata_is_dir(node) IN
    IF is_dir
      THEN IF ~read_dir_ok(node) THEN Err
           ELSE LET r == for_entries(node.entries, path, 1, loop_start) IN
                IF ~r.ok THEN Err
                ELSE Ok(with_children(FileInfo_new(path, r.acc.size, is_dir, r.acc.items),
                                      is_dir, r.acc.children))
      ELSE Ok(with_children(FileInfo_new(path, leaf_size(node), is_dir, 1), is_dir, <<>>))

----------------------------------------------------------------------------
\* rsdu: the navigation state and the key handlers of main's loop.

Keys == {"up", "down", "enter", "quit", "back", "other"}

\* current_dir.children.as_deref().unwrap_or(&[])
entries_of(info) == IF info.children = None THEN <<>> ELSE info.children[1]
current_entries(st) == entries_of(st[Len(st)])

Outcome(st, sel, flow) == [stack |-> st, selected_index |-> sel, flow |-> flow]

key_up_wrapping(st, sel) ==
  Outcome(st, IF sel > 0 THEN sel - 1
              ELSE IF Len(current_entries(st)) > 0 THEN Len(current_entries(st)) - 1 ELSE 0,
          "continue")
key_up(st, sel) ==
  Outcome(st, IF sel > 0 THEN sel - 1 ELSE sel, "continue")

key_down_off_by_one(st, sel) ==
  Outcome(st, IF sel < Len(current_entries(st)) THEN sel + 1 ELSE sel, "continue")
key_down(st, sel) ==
  Outcome(st, IF sel + 1 < Len(current_entries(st)) THEN sel + 1 ELSE sel, "continue")

key_enter_pushes_first(st, sel) ==
  LET entries == current_entries(st) IN
  IF sel >= Len(entries) THEN Outcome(st, sel, "panic")
  ELSE IF entries[sel + 1].is_dir
         THEN Outcome(Append(st, entries[1]), 0, "continue")
         ELSE Outcome(st, sel, "continue")
key_enter_no_dir_check(st, sel) ==
  LET entries == current_entries(st) IN
  IF sel >= Len(entries) THEN Outcome(st, sel, "panic")
  ELSE Outcome(Append(st, entries[sel + 1]), 0, "continue")
\* &entries[app_state.selected_index] panics when the index is out of bounds.
key_enter(st, sel) ==
  LET entries == current_entries(st) IN
  IF sel >= Len(entries) THEN Outcome(st, sel, "panic")
  ELSE LET selected_entry == entries[sel + 1] IN
       IF selected_entry.is_dir
         THEN Outcome(Append(st, selected_entry), 0, "continue")
         ELSE Outcome(st, sel, "continue")

key_quit_continues(st, sel) == Outcome(st, sel, "continue")
key_quit(st, sel) == Outcome(st, sel, "break")

key_backspace_unguarded(st, sel) ==
  Outcome(SubSeq(st, 1, Len(st) - 1), 0, "continue")
key_backspace_guard_off_by_one(st, sel) ==
  IF Len(st) > 2 THEN Outcome(SubSeq(st, 1, Len(st) - 1), 0, "continue")
  ELSE Outcome(st, sel, "continue")
key_backspace(st, sel) ==
  IF Len(st) > 1 THEN Outcome(SubSeq(st, 1, Len(st) - 1), 0, "continue")
  ELSE Outcome(st, sel, "continue")

key_other(st, sel) == Outcome(st, sel, "continue")

----------------------------------------------------------------------------
\* rsdu: human_readable_size, generate_bar and the frame.

\* A u64 size as five little-endian limbs in base 1024, so that KB, MB, GB and
\* TB are the limb boundaries. (TB = 1024^4 is beyond TLC's integers.)
KB == 1024
Limbs(n) ==
  <<n % KB, (n \div KB) % KB, (n \div (KB * KB)) % KB, n \div (KB * KB * KB), 0>>

\* The part of a size below limb k, times ten, as limbs below k plus a carry:
\* the carry is the first decimal of size / 1024^(k-1), truncated.
RECURSIVE TimesTen(_, _, _)
TimesTen(w, k, i) ==
  IF i = 0 THEN [limbs |-> <<>>, carry |-> 0]
  ELSE LET lo == TimesTen(w, k, i - 1)
           v == 10 * w[i] + lo.carry
       IN  [limbs |-> Append(lo.limbs, v % KB), carry |-> v \div KB]

\* format!("{:.1} <unit>", size_f / unit) for the unit whose limb is k: the
\* nearest tenth of the exact quotient (no quotient lies halfway: 1024^j is
\* not a multiple of 20).
one_decimal_truncating(w, k, unit) ==
  LET t == TimesTen(w, k, k - 1)
      tenths == 10 * w[k] + t.carry
  IN  ToString(tenths \div 10) \o "." \o ToString(tenths % 10) \o unit
one_decimal(w, k, unit) ==
  LET t == TimesTen(w, k, k - 1)
      up == k > 1 /\ t.limbs[k - 1] >= 512
      tenths == 10 * w[k] + t.carry + (IF up THEN 1 ELSE 0)
  IN  ToString(tenths \div 10) \o "." \o ToString(tenths % 10) \o unit

human_readable_size(w) ==
  IF w[5] > 0 THEN one_decimal(w, 5, " TiB")
  ELSE IF w[4] > 0 THEN one_decimal(w, 4, " GiB")
  ELSE IF w[3] > 0 THEN one_decimal(w, 3, " MiB")
  ELSE IF w[2] > 0 THEN one_decimal(w, 2, " KiB")
  ELSE ToString(w[1]) \o " B"

\* entries.iter().map(|e| e.size).max().unwrap_or(1)
max_entry_size(entries) ==
  IF entries = <<>> THEN 1
  ELSE CHOOSE m \in {entries[i].size : i \in 1..Len(entries)} :
         \A i \in 1..Len(entries) : entries[i].size <= m

\* generate_bar: the filled and the blank cells, or the abort of
\* bar_width - filled_length when filled_length exceeds bar_width.
\* 0.0 / 0.0 is NaN, and NaN.round() as usize is 0; x / 0.0 is infinite for
\* x > 0 and saturates; f64::round rounds halves away from zero.
generate_bar(size, max_size, bar_width) ==
  IF max_size = 0
    THEN IF size = 0 THEN [ok |-> TRUE, filled |-> 0, empty |-> bar_width]
         ELSE [ok |-> FALSE, filled |-> 0, empty |-> 0]
    ELSE LET filled_length == (2 * size * bar_width + max_size) \div (2 * max_size) IN
         IF filled_length > bar_width THEN [ok |-> FALSE, filled |-> 0, empty |-> 0]
         ELSE [ok |-> TRUE, filled |-> filled_length, empty |-> bar_width - filled_length]

\* The bar width main passes.
BarWidth == 30

\* max_y as usize - 4. Below 4 the subtraction overflows: a build with
\* overflow checks panics, one without wraps to a value above any Vec length.
reserved_lines_off_by_one(max_y) == max_y - 3
reserved_lines(max_y) == max_y - 4

\* How many entries the loop draws before `i >= max_y as usize - 4` breaks it.
rows_drawn(n, max_y) ==
  IF max_y >= 4 THEN (IF n < reserved_lines(max_y) THEN n ELSE reserved_lines(max_y))
  ELSE n

\* One row of the body: mvprintw(i + 1, 0, "{size_str} [{bar}] {name}").
draw_row(entries, i, sel) ==
  LET entry == entries[i + 1] IN
  [y |-> i + 1,
   index |-> i,
   highlighted |-> (i = sel),
   size_str |-> human_readable_size(Limbs(entry.size)),
   bar |-> generate_bar(entry.size, max_entry_size(entries), BarWidth),
   name |-> entry.path[Len(entry.path)]]

\* The footer line: total_size twice and total_items.
draw_footer_swapped(t_size, t_items) ==
  [size_str |-> human_readable_size(Limbs(t_items)), items |-> t_size]
draw_footer(t_size, t_items) ==
  [size_str |-> human_readable_size(Limbs(t_size)), items |-> t_items]

NoFrame ==
  [drawn |-> FALSE, max_y |-> 0, header |-> <<>>, max_entry_size |-> 0, rows |-> <<>>,
   footer_y |-> 0, footer |-> [size_str |-> "", items |-> 0], help_y |-> 0]

\* The frame of one pass of the loop on a terminal of max_y lines.
draw_frame(st, sel, max_y, t_size, t_items) ==
  LET current_dir == st[Len(st)]
      entries == current_entries(st)
  IN  [drawn |-> TRUE,
       max_y |-> max_y,
       header |-> current_dir.path,
       max_entry_size |-> max_entry_size(entries),
       rows |-> [i \in 1..rows_drawn(Len(entries), max_y) |-> draw_row(entries, i - 1, sel)],
       footer_y |-> max_y - 2,
       footer |-> draw_footer(t_size, t_items),
       help_y |-> max_y - 1]

Heights == 0..MaxHeight

\* Sizes given to human_readable_size on its own.
LimbSamples == {0, 1, 51, 52, 512, 1023}
SizesToFormat ==
  {<<d0, d1, d2, d3, d4>> : d0 \in LimbSamples, d1 \in LimbSamples, d2 \in LimbSamples,
                            d3 \in LimbSamples, d4 \in 0..MaxTiB}

----------------------------------------------------------------------------
\* The program.

InitOn(filesystems) ==
  /\ fs \in filesystems
  /\ resolvable \in BOOLEAN
  /\ pc = "resolve"
  /\ stack = <<>>
  /\ selected_index = 0
  /\ total_size = 0
  /\ total_items = 0
  /\ ch = "none"
  /\ before = [stack |-> <<>>, selected_index |-> 0]
  /\ term = "off"
  /\ exit_code = -1
  /\ frame = NoFrame
  /\ fmt_in = Limbs(0)
  /\ fmt_out = ""

Init == InitOn(FileSystems)

Resolve_after_initscr ==
  /\ pc = "resolve"
  /\ pc' = IF resolvable THEN "scan" ELSE "exit"
  /\ exit_code' = IF resolvable THEN exit_code ELSE 1
  /\ term' = "on"
  /\ UNCHANGED <<fs, resolvable, stack, selected_index, total_size, total_items, ch, before,
                 frame, fmt_in, fmt_out>>
\* fs::canonicalize(&args.directory), exit(1) on failure.
Resolve ==
  /\ pc = "resolve"
  /\ pc' = IF resolvable THEN "scan" ELSE "exit"
  /\ exit_code' = IF resolvable THEN exit_code ELSE 1
  /\ UNCHANGED <<fs, resolvable, stack, selected_index, total_size, total_items, ch, before,
                 term, frame, fmt_in, fmt_out>>

\* traverse_directory(&root_path), exit(1) on failure; then the AppState.
Scan ==
  /\ pc = "scan"
  /\ LET r == traverse_directory(fs, <<>>) IN
     IF r.ok
       THEN /\ total_size' = r.info.size
            /\ total_items' = r.info.items
            /\ stack' = <<r.info>>
            /\ selected_index' = 0
            /\ pc' = "initscr"
            /\ UNCHANGED exit_code
       ELSE /\ pc' = "exit"
            /\ exit_code' = 1
            /\ UNCHANGED <<stack, selected_index, total_size, total_items>>
  /\ UNCHANGED <<fs, resolvable, ch, before, term, frame, fmt_in, fmt_out>>

\* initscr(); keypad(); noecho(); curs_set().
InitScreen ==
  /\ pc = "initscr"
  /\ term' = "on"
  /\ pc' = "render"
  /\ UNCHANGED <<fs, resolvable, stack, selected_index, total_size, total_items, ch, before,
                 exit_code, frame, fmt_in, fmt_out>>

\* The frame: clear(), app_state.stack.last().unwrap(), getmaxyx, the drawing,
\* refresh(). A panic before refresh() leaves the screen as it was.
Render(heights) ==
  /\ pc = "render"
  /\ IF Len(stack) = 0
       THEN /\ pc' = "panic" /\ exit_code' = 101 /\ UNCHANGED frame
       ELSE \E max_y \in heights :
              LET f == draw_frame(stack, selected_index, max_y, total_size, total_items)
                  overflows == current_entries(stack) # <<>> /\ max_y < 4
                  bar_aborts == \E i \in 1..Len(f.rows) : ~f.rows[i].bar.ok
              IN  \/ /\ overflows \/ bar_aborts
                     /\ pc' = "panic_draw" /\ exit_code' = 101 /\ UNCHANGED frame
                  \/ /\ ~bar_aborts
                     /\ pc' = "getch" /\ frame' = f /\ UNCHANGED exit_code
  /\ UNCHANGED <<fs, resolvable, stack, selected_index, total_size, total_items, ch, before,
                 term, fmt_in, fmt_out>>

\* let ch = getch(); match ch { ... }
Handle(key, r) ==
  /\ pc = "getch"
  /\ ch' = key
  /\ before' = [stack |-> stack, selected_index |-> selected_index]
  /\ stack' = r.stack
  /\ selected_index' = r.selected_index
  /\ pc' = CASE r.flow = "continue" -> "render"
             [] r.flow = "break" -> "done"
             [] OTHER -> "panic"
  \* break leaves the loop for endwin() and the end of main.
  /\ term' = IF r.flow = "break" THEN "ended" ELSE term
  /\ exit_code' = CASE r.flow = "continue" -> exit_code
                    [] r.flow = "break" -> 0
                    [] OTHER -> 101
  /\ UNCHANGED <<fs, resolvable, total_size, total_items, frame, fmt_in, fmt_out>>

KeyUp == Handle("up", key_up(stack, selected_index))
KeyDown == Handle("down", key_down(stack, selected_index))
KeyEnter == Handle("enter", key_enter(stack, selected_index))
KeyQuit == Handle("quit", key_quit(stack, selected_index))
KeyBackspace == Handle("back", key_backspace(stack, selected_index))
KeyOther == Handle("other", key_other(stack, selected_index))

Next ==
  \/ Resolve
  \/ Scan
  \/ InitScreen
  \/ Render({MaxHeight})
  \/ KeyUp
  \/ KeyDown
  \/ KeyEnter
  \/ KeyQuit
  \/ KeyBackspace
  \/ KeyOther

\* The program on a terminal of MaxHeight lines.
Spec == Init /\ [][Next]_vars

\* The program on terminals of every height, resized at will.
ScreenInit == InitOn(UNION {Trees(n) : n \in 1..MaxScreenNodes})

ScreenNext ==
  \/ Resolve
  \/ Scan
  \/ InitScreen
  \/ Render(Heights)
  \/ KeyUp
  \/ KeyDown
  \/ KeyEnter
  \/ KeyQuit
  \/ KeyBackspace
  \/ KeyOther

ScreenSpec == ScreenInit /\ [][ScreenNext]_vars

\* human_readable_size on its own: one call on each sampled size.
FormatInit ==
  /\ fs = FsNode("nostat", 0, <<>>)
  /\ resolvable = FALSE
  /\ pc = "format"
  /\ stack = <<>>
  /\ selected_index = 0
  /\ total_size = 0
  /\ total_items = 0
  /\ ch = "none"
  /\ before = [stack |-> <<>>, selected_index |-> 0]
  /\ term = "off"
  /\ exit_code = -1
  /\ frame = NoFrame
  /\ fmt_in \in SizesToFormat
  /\ fmt_out = ""

Format ==
  /\ pc = "format"
  /\ fmt_out' = human_readable_size(fmt_in)
  /\ pc' = "formatted"
  /\ UNCHANGED <<fs, resolvable, stack, selected_index, total_size, total_items, ch, before,
                 term, exit_code, frame, fmt_in>>

FormatSpec == FormatInit /\ [][Format]_vars

----------------------------------------------------------------------------
\* Reading the returned tree and the filesystem oracle.

Browsing == pc \in {"initscr", "render", "getch", "done", "panic", "panic_draw"}
ScanOk == Browsing /\ Len(stack) >= 1

RECURSIVE NodesOf(_)
\* Every node of a FileInfo tree, at every depth.
NodesOf(info) ==
  {info} \cup UNION {NodesOf(entries_of(info)[i]) : i \in 1..Len(entries_of(info))}

RECURSIVE SumOver(_, _, _)
\* The sum of field f ("size" or "items") over the first n nodes of a sequence.
SumOver(s, f, n) ==
  IF n = 0 THEN 0
  ELSE SumOver(s, f, n - 1) + (IF f = "size" THEN s[n].size ELSE s[n].items)

RECURSIVE FsAt(_, _)
\* The oracle's node at a path below node.
FsAt(node, path) ==
  IF path = <<>> THEN node ELSE FsAt(node.entries[Head(path)], Tail(path))

\* A traversal that the filesystem lets succeed: a file, or a directory whose
\* listing opens and enumerates without an error.
Traversable(node) ==
  \/ node.kind = "file"
  \/ node.kind = "dir" /\ \A i \in 1..Len(node.entries) : node.entries[i].kind # "err"

RECURSIVE RefSize(_), RefItems(_)
\* What the filesystem holds below a traversable node, counting only what can
\* be traversed.
RefSize(node) ==
  IF node.kind = "file" THEN node.len
  ELSE LET S[i \in 0..Len(node.entries)] ==
             IF i = 0 THEN 0
             ELSE S[i - 1] + (IF Traversable(node.entries[i])
                                THEN RefSize(node.entries[i]) ELSE 0)
       IN S[Len(node.entries)]
RefItems(node) ==
  IF node.kind = "file" THEN 1
  ELSE LET S[i \in 0..Len(node.entries)] ==
             IF i = 0 THEN 1
             ELSE S[i - 1] + (IF Traversable(node.entries[i])
                                THEN RefItems(node.entries[i]) ELSE 0)
       IN S[Len(node.entries)]

ChildPaths(info) == {entries_of(info)[i].path : i \in 1..Len(entries_of(info))}

----------------------------------------------------------------------------
\* C1: in the tree a successful traversal returns, every directory node, at
\* every depth, has size = the sum of its children's sizes and items = 1 + the
\* sum of its children's items (so an empty directory has size 0, items 1).
C1_Aggregation ==
  ScanOk =>
    \A d \in NodesOf(stack[1]) :
      d.is_dir =>
        /\ d.size = SumOver(entries_of(d), "size", Len(entries_of(d)))
        /\ d.items = 1 + SumOver(entries_of(d), "items", Len(entries_of(d)))

\* A root holding a file of 2 bytes and a directory that holds a file of 1 byte.
C1_Witness ==
  /\ ScanOk
  /\ stack[1].is_dir /\ stack[1].size = 3 /\ stack[1].items = 4
  /\ \E d \in NodesOf(stack[1]) : d.is_dir /\ d # stack[1] /\ d.size = 1 /\ d.items = 2

\* C2: skip isolation. A directory whose child fails to traverse (the child's
\* stat fails, its listing fails, or its own traversal returns Err) is still
\* returned; no node for the failed child is among its children, its children
\* are exactly the entries that traverse, and its size and items are the
\* aggregate over those alone.
C2_SkipIsolation ==
  /\ ( /\ resolvable /\ pc \notin {"resolve", "scan"}
       /\ fs.kind = "dir" /\ Traversable(fs)
       /\ \E i \in 1..Len(fs.entries) : ~Traversable(fs.entries[i]) )
     => ScanOk
  /\ ScanOk =>
       \A d \in NodesOf(stack[1]) :
         d.is_dir =>
           LET n == FsAt(fs, d.path) IN
           \A i \in 1..Len(n.entries) :
             ~Traversable(n.entries[i]) =>
               /\ Append(d.path, i) \notin ChildPaths(d)
               /\ ChildPaths(d) =
                    {Append(d.path, j) : j \in {k \in 1..Len(n.entries) : Traversable(n.entries[k])}}
               /\ d.size = RefSize(n)
               /\ d.items = RefItems(n)

\* A root listing a path whose stat fails, a directory whose listing fails and
\* a file of 2 bytes: only the file is kept.
C2_Witness ==
  /\ ScanOk
  /\ Len(fs.entries) = 3
  /\ \E i, j \in 1..3 : fs.entries[i].kind = "nostat" /\ fs.entries[j].kind = "dirfail"
  /\ Len(entries_of(stack[1])) = 1
  /\ stack[1].size = 2 /\ stack[1].items = 2

\* C3: partial-failure tolerance. Whenever the root's own stat and listing
\* succeed, the root traversal returns Ok, whatever fails below the root
\* (a stat, a listing, or the enumeration of an entry).
C3_PartialFailureTolerance ==
  ( /\ resolvable /\ pc \notin {"resolve", "scan"}
    /\ metadata_ok(fs)
    /\ (metadata_is_dir(fs) => read_dir_ok(fs)) )
  => pc # "exit"

\* C4: leaf correctness. A node is a leaf exactly when its path stats as a
\* non-directory; a leaf has the byte length stat reports, items = 1 and no
\* children (None); a directory node has children present (Some). Every file
\* listed by a returned directory, and a root that is a file, yields such a leaf.
C4_LeafCorrectness ==
  /\ (resolvable /\ pc \notin {"resolve", "scan"} /\ fs.kind = "file") => ScanOk
  /\ ScanOk =>
       \A d \in NodesOf(stack[1]) :
         LET n == FsAt(fs, d.path) IN
         /\ d.is_dir <=> n.kind # "file"
         /\ ~d.is_dir => (d.size = n.len /\ d.items = 1 /\ d.children = None)
         /\ d.is_dir => (d.children # None /\ Len(d.children) = 1)
         /\ \A i \in 1..Len(n.entries) :
              n.entries[i].kind = "file" =>
                \E c \in NodesOf(d) :
                  /\ c.path = Append(d.path, i)
                  /\ ~c.is_dir /\ c.size = n.entries[i].len /\ c.items = 1
                  /\ c.children = None

\* A file of 2 bytes two levels below the root, beside an empty directory.
C4_Witness ==
  /\ ScanOk
  /\ \E d \in NodesOf(stack[1]) :
       ~d.is_dir /\ Len(d.path) = 2 /\ d.size = 2 /\ d.items = 1 /\ d.children = None
  /\ \E d \in NodesOf(stack[1]) : d.is_dir /\ d.children = Some(<<>>)

----------------------------------------------------------------------------
\* Navigation.

\* A step of the loop that reads a key and runs its match arm.
KeyStep(key) == pc = "getch" /\ pc' # "getch" /\ ch' = key

NavUnchanged == stack' = stack /\ selected_index' = selected_index

\* C5: stack depth floor. Once the AppState exists the stack holds at least
\* one node, and a back event at stack length 1 leaves the stack and
\* selected_index unchanged (and the loop goes on to the next frame).
C5_StackDepthFloor ==
  /\ [](Browsing => Len(stack) >= 1)
  /\ [][(KeyStep("back") /\ Len(stack) = 1) => (NavUnchanged /\ pc' = "render")]_vars

\* Back was read at the root with the second row selected, and nothing moved.
C5_Witness ==
  /\ pc = "render" /\ ch = "back"
  /\ Len(before.stack) = 1 /\ before.selected_index = 1
  /\ Len(stack) = 1 /\ selected_index = 1

\* C6: selection range. selected_index is an index into the children of the
\* node on top of the stack (0 <= selected_index < children.len()), or 0 when
\* that node has no children.
C6_SelectionRange ==
  Browsing =>
    LET n == Len(current_entries(stack)) IN
    IF n = 0 THEN selected_index = 0 ELSE selected_index \in 0..(n - 1)

\* Down was read on the last of three rows.
C6_Witness ==
  /\ pc = "render" /\ ch = "down"
  /\ Len(current_entries(stack)) = 3
  /\ before.selected_index = 2 /\ selected_index = 2

\* C7: browser totality. No key event, in any reachable state, ends in a
\* panic.
C7_BrowserTotality == pc # "panic"

\* C8: empty-view no-op. When the node on top of the stack has no children,
\* up, down and enter each leave the stack and selected_index unchanged and
\* the loop continues with the next frame.
C8_EmptyViewNoOp ==
  [][((KeyStep("up") \/ KeyStep("down") \/ KeyStep("enter")) /\ current_entries(stack) = <<>>)
       => (NavUnchanged /\ pc' = "render")]_vars

\* C9: enter/back round trip. When an enter event on a selected directory is
\* immediately followed by a back event, the stack is again the stack before
\* the enter and selected_index is 0.
C9_EnterBackRoundTrip ==
  [][( /\ KeyStep("back")
       /\ ch = "enter"
       /\ Len(stack) = Len(before.stack) + 1 )
     => ( /\ stack' = before.stack
          /\ selected_index' = 0
          /\ pc' = "render" )]_vars

\* Back was read in a directory that is the second row of the view now shown:
\* it was entered with selected_index = 1, and the selection is 0.
C9_Witness ==
  /\ pc = "render" /\ ch = "back"
  /\ Len(before.stack) = Len(stack) + 1
  /\ Len(current_entries(stack)) >= 2
  /\ before.stack[Len(before.stack)] = current_entries(stack)[2]
  /\ selected_index = 0

\* C10: navigation saturation. Up at selected_index = 0 and down on the last
\* row (or in a view without rows) change nothing; otherwise up decrements and
\* down increments selected_index by exactly 1; neither changes the stack.
C10_NavigationSaturation ==
  [][ /\ KeyStep("up") =>
           /\ stack' = stack
           /\ selected_index' = IF selected_index = 0 THEN 0 ELSE selected_index - 1
      /\ KeyStep("down") =>
           LET n == Len(current_entries(stack)) IN
           /\ stack' = stack
           /\ selected_index' = IF n = 0 \/ selected_index = n - 1
                                  THEN selected_index ELSE selected_index + 1 ]_vars

\* Up was read on the first of at least two rows, and the selection did not
\* wrap to the last row.
C10_Witness ==
  /\ pc = "render" /\ ch = "up"
  /\ Len(current_entries(stack)) >= 2
  /\ before.selected_index = 0 /\ selected_index = 0
  /\ before.stack = stack

\* The row under the cursor, when there is one.
HasSelection == selected_index < Len(current_entries(stack))
Selected == current_entries(stack)[selected_index + 1]

\* C11: the stack is a root-to-current path. stack[0] is the root node the
\* traversal returned and stays it; every later element is a directory node
\* that is one of the children of the element below it; an enter event on a
\* selected directory pushes exactly children[selected_index] of the previous
\* top and sets selected_index to 0.
C11_StackIsPath ==
  /\ [](Browsing =>
          /\ Len(stack) >= 1
          /\ stack[1].path = <<>>
          /\ stack[1].size = total_size /\ stack[1].items = total_items
          /\ \A i \in 1..(Len(stack) - 1) :
               /\ stack[i + 1].is_dir
               /\ \E j \in 1..Len(entries_of(stack[i])) : entries_of(stack[i])[j] = stack[i + 1])
  /\ [][ /\ (Browsing /\ Browsing') => stack'[1] = stack[1]
         /\ (KeyStep("enter") /\ HasSelection /\ Selected.is_dir) =>
              /\ stack' = Append(stack, Selected)
              /\ selected_index' = 0 ]_vars

\* Enter was read on the second row, a directory, and that directory is now
\* on top of the stack.
C11_Witness ==
  /\ pc = "render" /\ ch = "enter"
  /\ Len(stack) = Len(before.stack) + 1
  /\ before.selected_index = 1 /\ selected_index = 0
  /\ stack[Len(stack)] = entries_of(stack[Len(stack) - 1])[2]

\* C12: no-op events. Enter while the selected child is a file, and any key
\* other than up, down, enter, quit and the backspace family, leave the stack
\* and selected_index unchanged and the loop goes on to the next frame.
C12_NoOpEvents ==
  [][ /\ (KeyStep("enter") /\ HasSelection /\ ~Selected.is_dir) =>
           (NavUnchanged /\ pc' = "render")
      /\ KeyStep("other") => (NavUnchanged /\ pc' = "render") ]_vars

\* Enter was read on the second row, a file, and nothing moved.
C12_Witness ==
  /\ pc = "render" /\ ch = "enter"
  /\ before.stack = stack /\ before.selected_index = 1 /\ selected_index = 1
  /\ ~current_entries(stack)[2].is_dir

----------------------------------------------------------------------------
\* Termination and start-up.

\* C13: quit always terminates. In every state where the loop waits for a key
\* a quit event can be read; it ends the loop (endwin, exit status 0) without
\* a navigation transition, and after it nothing happens: no frame, no key.
C13_QuitTerminates ==
  /\ [](pc = "getch" => ENABLED KeyQuit)
  /\ [][ /\ KeyStep("quit") =>
              /\ pc' = "done" /\ term' = "ended" /\ exit_code' = 0
              /\ NavUnchanged /\ frame' = frame
         /\ pc # "done" ]_vars

\* Quit was read two levels below the root, in a view without rows.
C13_Witness ==
  /\ pc = "done" /\ ch = "quit" /\ term = "ended"
  /\ Len(stack) = 3 /\ current_entries(stack) = <<>>

\* C14: scan before render. The terminal is initialised, a frame drawn or a
\* key read only after path resolution and the root traversal have succeeded;
\* when either fails the process ends with exit status 1 with the terminal
\* never initialised, no frame drawn and no key read.
C14_ScanBeforeRender ==
  /\ (term # "off" \/ frame.drawn \/ ch # "none") =>
       /\ resolvable /\ Traversable(fs)
       /\ pc \notin {"resolve", "scan", "exit"}
       /\ Len(stack) >= 1
  /\ (pc \notin {"resolve", "scan"} /\ (~resolvable \/ ~Traversable(fs))) =>
       /\ pc = "exit" /\ exit_code = 1
       /\ term = "off" /\ ~frame.drawn /\ ch = "none"

\* The root resolved, its traversal failed on an entry below it, and the
\* process has exited.
C14_Witness ==
  /\ pc = "exit" /\ exit_code = 1 /\ term = "off"
  /\ resolvable /\ fs.kind = "dir" /\ ~Traversable(fs)

----------------------------------------------------------------------------
\* The frame.

\* The frame on screen is the one of the navigation state.
FreshFrame == pc = "getch" /\ frame.drawn

\* C15: the footer shows the root's totals. In every frame the footer's size
\* and item count are those of stack[0], at every depth, and the header of a
\* frame shows the path of the node on top of the stack.
C15_FooterShowsRootTotals ==
  /\ frame.drawn =>
       /\ frame.footer.size_str = ToString(stack[1].size) \o " B"
       /\ frame.footer.items = stack[1].items
  /\ FreshFrame => frame.header = stack[Len(stack)].path

\* A frame one level below the root, where the directory shown has fewer
\* items than the root.
C15_Witness ==
  /\ FreshFrame
  /\ Len(stack) = 2
  /\ stack[2].items < stack[1].items
  /\ frame.footer.items = stack[1].items
  /\ frame.header = stack[2].path /\ frame.header # <<>>

C17_BarScaling ==
  FreshFrame =>
    \A i \in 1..Len(frame.rows) :
      LET entries == current_entries(stack)
          s == entries[i].size
          M == CHOOSE m \in {entries[j].size : j \in 1..Len(entries)} :
                 \A j \in 1..Len(entries) : entries[j].size <= m
          bar == frame.rows[i].bar
      IN  /\ bar.ok
          /\ bar.filled + bar.empty = BarWidth
          /\ bar.filled \in 0..BarWidth
          /\ 2 * bar.filled * M - 2 * s * BarWidth <= M
          /\ 2 * s * BarWidth - 2 * bar.filled * M <= M
          /\ s = M => bar.filled = BarWidth
          /\ s = 0 => bar.filled = 0

\* Big naturals as little-endian limbs in base 1024, the last limb unbounded.
RECURSIVE Carry(_, _, _)
Carry(w, i, c) ==
  IF i > Len(w) THEN <<c>>
  ELSE <<(w[i] + c) % KB>> \o Carry(w, i + 1, (w[i] + c) \div KB)
Scale(w, c) == Carry([i \in 1..Len(w) |-> c * w[i]], 1, 0)
RECURSIVE LeqFrom(_, _, _)
LeqFrom(a, b, i) ==
  IF i = 0 THEN TRUE
  ELSE IF a[i] # b[i] THEN a[i] < b[i]
  ELSE LeqFrom(a, b, i - 1)
Leq(a, b) == LeqFrom(a, b, Len(a))
Unit(k) == [i \in 1..5 |-> IF i = k THEN 1 ELSE 0]
UnitName(k) ==
  CASE k = 2 -> " KiB" [] k = 3 -> " MiB" [] k = 4 -> " GiB" [] OTHER -> " TiB"

\* C18: size formatting. human_readable_size(n) uses the largest unit among
\* TiB, GiB, MiB, KiB that is <= n; below 1024 the result is the integer and
\* " B"; from 1024 on it is n / unit to one decimal place (the nearest tenth:
\* 2 * |10 n - T * unit| <= unit for the tenths T printed); 1023 -> "1023 B",
\* 1024 -> "1.0 KiB", 1048576 -> "1.0 MiB", 1099511627776 -> "1.0 TiB".
C18_SizeFormatting ==
  pc = "formatted" =>
    LET n == fmt_in
        above == {k \in 2..5 : n[k] > 0}
    IN  /\ above = {} => fmt_out = ToString(n[1]) \o " B"
        /\ above # {} =>
             LET k == CHOOSE j \in above : \A i \in above : i <= j IN
             \E T \in (10 * n[k])..(10 * n[k] + 10) :
               /\ fmt_out = ToString(T \div 10) \o "." \o ToString(T % 10) \o UnitName(k)
               /\ Leq(Scale(n, 20), Scale(Unit(k), 2 * T + 1))
               /\ Leq(Scale(Unit(k), 2 * T - 1), Scale(n, 20))
        /\ n = <<1023, 0, 0, 0, 0>> => fmt_out = "1023 B"
        /\ n = <<0, 1, 0, 0, 0>> => fmt_out = "1.0 KiB"
        /\ n = <<0, 0, 1, 0, 0>> => fmt_out = "1.0 MiB"
        /\ n = <<0, 0, 0, 0, 1>> => fmt_out = "1.0 TiB"

\* 1 MiB + 1023 KiB + 1023 B is shown rounded up to the next MiB.
C18_Witness ==
  /\ pc = "formatted"
  /\ fmt_in = <<1023, 1023, 1, 0, 0>>
  /\ fmt_out = "2.0 MiB"

\* C19: the bar divisor is never zero. In every frame the maximum M given to
\* the bar computation is >= 1, also for an empty view and for a view whose
\* entries all have size 0.
C19_BarDivisorPositive ==
  frame.drawn => frame.max_entry_size >= 1

\* C20: the reserved lines are respected at every height. For every height
\* H >= 0 the frame is drawn without overflow or abort, the body has
\* max(0, min(children.len(), H - 4)) rows, and no body row is on the footer
\* row H - 2 or the help row H - 1.
C20_ReservedLines ==
  /\ pc # "panic_draw"
  /\ FreshFrame =>
       LET H == frame.max_y
           len == Len(current_entries(stack))
           fit == IF len < H - 4 THEN len ELSE H - 4
       IN  /\ Len(frame.rows) = (IF fit < 0 THEN 0 ELSE fit)
           /\ \A i \in 1..Len(frame.rows) :
                frame.rows[i].y # frame.footer_y /\ frame.rows[i].y # frame.help_y

====
